---- MODULE Spec2Model ----
(***************************************************************************)
(* A model of imutil/dicom.cpp of SIFT3D: the C wrapper around DCMTK that  *)
(* reads a directory of DICOM slices into an Image (read_dcm_dir) and      *)
(* writes an Image as one file (write_dcm) or as a directory of slices     *)
(* (write_dcm_dir).                                                        *)
(*                                                                         *)
(* State: two directories of the file system, the caller's Image, the      *)
(* calls the caller still has to make, and the locals of a running         *)
(* write_dcm_dir.  Numbers: a spacing is a positive integer number of      *)
(* length units; a voxel value v is kept as the integer v * VoxDen, one    *)
(* value per z-plane; a decoded sample is a natural number.                *)
(***************************************************************************)
EXTENDS Integers, Sequences, FiniteSets, TLC

VARIABLES fskind, fs, im, meta, faults, todo, pc, ret, diag, wd, wr, mem, uidctr, last

vars == <<fskind, fs, im, meta, faults, todo, pc, ret, diag, wd, wr, mem, uidctr, last>>

(***************************************************************************)
(* Bounds of the model.                                                    *)
(***************************************************************************)
\* entries of the directory that is read
MaxFiles == 3
\* instance numbers of the input slices are 1..MaxInstance
MaxInstance == 2
\* z-planes of a volume the caller writes
MaxNz == 2
\* resolution of voxel values: a voxel value v is stored as v * VoxDen
VoxDen == 4
\* slice counts of the volumes whose slice files are named: 1..MaxSlices
MaxSlices == 150

\* dicom.cpp line 90
default_instance_num == 1

SUCCESS == "SIFT3D_SUCCESS"
FAILURE == "SIFT3D_FAILURE"

Dirs == {"D", "E"}

\* the extension im_get_format() maps to DICOM (ext_dcm)
ext_dcm == "dcm"

Max(a, b) == IF a > b THEN a ELSE b

\* the permutations of 1..n
PermsOf ==
  [n \in 0..Max(MaxFiles, MaxNz) |->
     {p \in [1..n -> 1..n] : \A i, j \in 1..n : p[i] = p[j] => i = j}]

(***************************************************************************)
(* Files.  A file is what the toolkit finds in it: the tags, and the       *)
(* decoded samples of its frames (one value per frame).  `missing' holds   *)
(* the tags the file lacks; `corrupt' files cannot be loaded at all.       *)
(***************************************************************************)
\* The text of a decimal-string element: the values "a\b" the toolkit reads
\* as numbers, or the text "[2] a, b" that lines 737 and 746 print.
DecimalString(vals) == [form |-> "decimal", vals |-> vals]
BracketedList(vals) == [form |-> "bracketed", vals |-> vals]

SeriesA == <<"series", 1>>
SeriesB == <<"series", 2>>
NoString == <<"", 0>>

\* The shapes of the input slices: rows, columns, frames, pixel spacing
\* (row spacing, column spacing), slice thickness, whether the pixel payload
\* decodes.
Shapes ==
  << [rows |-> 1, cols |-> 2, frames |-> 1, ps |-> <<1, 1>>, thick |-> 1],
     [rows |-> 1, cols |-> 2, frames |-> 2, ps |-> <<2, 1>>, thick |-> 3] >>

\* a slice of other in-plane dimensions
Transposed == [rows |-> 2, cols |-> 1, frames |-> 1, ps |-> <<1, 1>>, thick |-> 1]

InputFile(fmt, series, instance, sh, mono, decodable) ==
  [ fmt |-> fmt, corrupt |-> FALSE, missing |-> {},
    series |-> series, instance |-> instance,
    rows |-> sh.rows, cols |-> sh.cols, frames |-> sh.frames,
    mono |-> mono, ps |-> DecimalString(sh.ps), aspect |-> DecimalString(sh.ps),
    thick |-> DecimalString(<<sh.thick>>),
    sliceLoc |-> 0,
    pixels |-> [k \in 1..sh.frames |-> 10 * instance + k + (IF series = SeriesA THEN 0 ELSE 100)],
    decodable |-> decodable,
    study |-> <<"study", 0>>, sopuid |-> <<"sop", instance>>,
    patient |-> <<"patient", 0>>, patientId |-> <<"patientid", 0>>,
    descrip |-> <<"descrip", 0>> ]

\* The kinds of directory entry the reader may meet, in a fixed order: an
\* entry with another extension, a DICOM file of a colour image (an invalid
\* record), a slice whose payload does not decode, a slice of other
\* dimensions, and the slices of every series, instance number and shape.
InputKinds ==
  << InputFile("other", SeriesA, 1, Shapes[1], TRUE, TRUE),
     InputFile(ext_dcm, SeriesA, 1, Shapes[1], FALSE, TRUE),
     InputFile(ext_dcm, SeriesB, 1, Shapes[1], TRUE, FALSE),
     InputFile(ext_dcm, SeriesB, 1, Transposed, TRUE, TRUE) >>
  \o [k \in 1..(2 * MaxInstance * Len(Shapes)) |->
        InputFile(ext_dcm,
                  IF (k - 1) % 2 = 0 THEN SeriesA ELSE SeriesB,
                  (((k - 1) \div 2) % MaxInstance) + 1,
                  Shapes[((k - 1) \div (2 * MaxInstance)) + 1],
                  TRUE, TRUE)]

\* A directory as created: the entries named 1..n.  Directories that differ
\* only in the order of creation are the same directory, so the kinds are
\* taken in non-decreasing order.
Named(f, stem) == [name |-> [stem |-> stem, ext |-> f.fmt]] @@ f

InputDirs ==
  UNION { { [i \in 1..n |-> Named(InputKinds[ks[i]], <<i>>)] :
              ks \in {c \in [1..n -> 1..Len(InputKinds)] :
                        \A i \in 1..n : i < n => c[i] <= c[i + 1]} } :
          n \in 0..MaxFiles }

(***************************************************************************)
(* The Image struct (imutil.h): dimensions, spacing, strides, data.        *)
(***************************************************************************)
\* a plane the buffer holds after a resize and before anything is stored
Uninit == -1

\* im_default_stride(): strides of a dense (c, x, y, z) buffer
im_default_stride(i) == [i EXCEPT !.strides = <<i.nc, i.nc * i.nx, i.nc * i.nx * i.ny>>]

\* im_resize(): the buffer gets the size of the dimensions
im_resize(i) == [i EXCEPT !.data = [z \in 1..Max(i.nz, 0) |-> Uninit]]

\* init_im(): an empty image with unit spacing
init_im ==
  [nx |-> 0, ny |-> 0, nz |-> 0, nc |-> 0, ux |-> 1, uy |-> 1, uz |-> 1,
   strides |-> <<0, 0, 0>>, data |-> <<>>]

\* The image the caller holds before a read: an earlier result.
Im0 ==
  [nx |-> 3, ny |-> 3, nz |-> 1, nc |-> 1, ux |-> 5, uy |-> 5, uz |-> 5,
   strides |-> <<1, 3, 9>>, data |-> <<7>>]

(***************************************************************************)
(* class Dicom (lines 103-293)                                             *)
(***************************************************************************)
\* DicomImage::getWidth / getHeight / getFrameCount / isMonochrome
getWidth(f) == f.cols
getHeight(f) == f.rows
getFrameCount(f) == f.frames
isMonochrome(f) == f.mono
\* DcmItem::findAndGetFloat64 (lines 247, 273): the first value of the
\* element as a number; the status is bad for a text that starts with no
\* number
findAndGetFloat64(text) ==
  IF text.form = "decimal" THEN [good |-> TRUE, val |-> text.vals[1]]
  ELSE [good |-> FALSE, val |-> 0]

\* DicomImage::getHeightWidthRatio: the pixel's height over its width
getHeightWidthRatio(f) ==
  IF f.ps.form = "decimal" /\ f.ps.vals[2] > 0 THEN f.ps.vals[1] \div f.ps.vals[2]
  ELSE 1

\* The tests of Dicom::Dicom(std::string path), lines 179-292: each one that
\* fails returns with valid = false.
DicomValid(f) ==
  /\ ~f.corrupt
  /\ "SeriesInstanceUID" \notin f.missing
  /\ "InstanceNumber" \notin f.missing
  /\ "PixelData" \notin f.missing
  /\ isMonochrome(f)
  /\ getWidth(f) >= 1 /\ getHeight(f) >= 1 /\ getFrameCount(f) >= 1
  /\ "PixelSpacing" \notin f.missing
  /\ findAndGetFloat64(f.ps).good
  /\ findAndGetFloat64(f.ps).val > 0
  /\ findAndGetFloat64(f.ps).val * getHeightWidthRatio(f) > 0
  /\ "SliceThickness" \notin f.missing
  /\ findAndGetFloat64(f.thick).good
  /\ findAndGetFloat64(f.thick).val > 0

\* Dicom::Dicom(std::string path)
Dicom(f) ==
  IF DicomValid(f)
  THEN [filename |-> f.name, seriesUID |-> f.series, instance |-> f.instance,
        ux |-> findAndGetFloat64(f.ps).val,
        uy |-> findAndGetFloat64(f.ps).val * getHeightWidthRatio(f),
        uz |-> findAndGetFloat64(f.thick).val,
        nx |-> getWidth(f), ny |-> getHeight(f), nz |-> getFrameCount(f), nc |-> 1,
        valid |-> TRUE]
  ELSE [filename |-> f.name, seriesUID |-> NoString, instance |-> -1,
        ux |-> 0, uy |-> 0, uz |-> 0, nx |-> 0, ny |-> 0, nz |-> 0, nc |-> 0,
        valid |-> FALSE]

\* std::string::compare: 0 exactly when the strings are equal
compare(a, b) == IF a = b THEN 0 ELSE 1

\* A variant of eqSeries that is true exactly for records of one series.
eqSeriesWhenEqual(a, b) == compare(a.seriesUID, b.seriesUID) = 0

\* Dicom::eqSeries (lines 172-175): the int that compare() returns, as a bool
eqSeries(a, b) == compare(a.seriesUID, b.seriesUID) # 0

\* Dicom::operator< (lines 167-170)
DicomLess(a, b) == a.instance < b.instance

(***************************************************************************)
(* read_dcm_cpp (lines 368-434): one file into an Image.                   *)
(***************************************************************************)
\* static_cast<float>(frameData[...]): the decoded sample as a voxel value
VoxelOfSample(s) == s * VoxDen

\* image.getOutputData(32, i): the decoded frame
getOutputData(f, i) == f.pixels[i]

\* line 407: frameData == NULL, for a payload that does not decode
FrameIsNull(f, i) == ~f.decodable

\* lines 386-396 and 545-553: the fields of the output and its strides
WithGeometry(i, nx, ny, nz, nc, d) ==
  im_default_stride(
    [i EXCEPT !.nx = nx, !.ny = ny, !.nz = nz, !.nc = nc,
              !.ux = d.ux, !.uy = d.uy, !.uz = d.uz])

\* lines 400-431: the frames, one after the other
ReadFrames(f, sized) ==
  IF \E i \in 1..sized.nz : FrameIsNull(f, i)
  THEN [ret |-> FAILURE, im |-> im_resize(sized)]
  ELSE [ret |-> SUCCESS,
        im |-> [sized EXCEPT !.data =
                  [i \in 1..sized.nz |-> VoxelOfSample(getOutputData(f, i))]]]

ReadValid(f, dicom, imIn, resizeFails) ==
  IF ~dicom.valid THEN [ret |-> FAILURE, im |-> imIn]
  ELSE IF resizeFails
       THEN [ret |-> FAILURE,
             im |-> WithGeometry(imIn, dicom.nx, dicom.ny, dicom.nz, dicom.nc, dicom)]
  ELSE ReadFrames(f, WithGeometry(imIn, dicom.nx, dicom.ny, dicom.nz, dicom.nc, dicom))

read_dcm_cpp(f, imIn, resizeFails) == ReadValid(f, Dicom(f), imIn, resizeFails)

(***************************************************************************)
(* read_dcm_dir_cpp (lines 436-592)                                        *)
(***************************************************************************)
\* im_get_format(): the format of a file name, by its extension
im_get_format(name) == IF name.ext = ext_dcm THEN "DICOM" ELSE "UNKNOWN"

\* lines 462-485: the readdir loop.  Entries of another format are skipped;
\* the first invalid record ends the call.
RECURSIVE ScanDir(_, _)
\* A variant of ScanEntry that skips an invalid record and goes on.
ScanEntrySkipping(e, dicom, rest, acc) ==
  IF im_get_format(e.name) # "DICOM" \/ ~dicom.valid THEN ScanDir(rest, acc)
  ELSE ScanDir(rest, Append(acc, dicom))

\* A variant of ScanEntry that loads the entries of every format.
ScanEntryAnyFormat(e, dicom, rest, acc) ==
  IF ~dicom.valid THEN [ok |-> FALSE, dicoms |-> acc]
  ELSE ScanDir(rest, Append(acc, dicom))

ScanEntry(e, dicom, rest, acc) ==
  IF im_get_format(e.name) # "DICOM" THEN ScanDir(rest, acc)
  ELSE IF ~dicom.valid THEN [ok |-> FALSE, dicoms |-> acc]
  ELSE ScanDir(rest, Append(acc, dicom))

ScanDir(entries, acc) ==
  IF entries = <<>> THEN [ok |-> TRUE, dicoms |-> acc]
  ELSE ScanEntry(Head(entries), Dicom(Head(entries)), Tail(entries), acc)

\* lines 500-513: the files of the list the series check reports
SeriesRejects(dicoms) ==
  {i \in 2..Len(dicoms) : ~eqSeries(dicoms[1], dicoms[i])}

\* A variant of DimRejects that also compares the spacing of the records.
DimRejectsWithSpacing(dicoms) ==
  {i \in 1..Len(dicoms) :
     \/ dicoms[i].nx # dicoms[1].nx
     \/ dicoms[i].ny # dicoms[1].ny
     \/ dicoms[i].nc # dicoms[1].nc
     \/ dicoms[i].ux # dicoms[1].ux
     \/ dicoms[i].uy # dicoms[1].uy
     \/ dicoms[i].uz # dicoms[1].uz}

\* lines 515-539: the files of the list the dimension check reports
DimRejects(dicoms) ==
  {i \in 1..Len(dicoms) :
     \/ dicoms[i].nx # dicoms[1].nx
     \/ dicoms[i].ny # dicoms[1].ny
     \/ dicoms[i].nc # dicoms[1].nc}

\* lines 522, 542: nz += dicom.getNz()
RECURSIVE CountNz(_)
CountNz(dicoms) ==
  IF dicoms = <<>> THEN 0 ELSE Head(dicoms).nz + CountNz(Tail(dicoms))

Rejected(why, dicoms) == [ret |-> FAILURE, diag |-> why, dicoms |-> dicoms, nz |-> 0]

\* lines 487-543: the tests on the list of records
Validated(scan) ==
  IF ~scan.ok THEN Rejected("invalid record", <<>>)
  ELSE IF Len(scan.dicoms) = 0 THEN Rejected("no dicom files found", <<>>)
  ELSE IF SeriesRejects(scan.dicoms) # {}
       THEN Rejected("is from a different series", scan.dicoms)
  ELSE IF DimRejects(scan.dicoms) # {}
       THEN Rejected("does not match the dimensions", scan.dicoms)
  ELSE [ret |-> SUCCESS, diag |-> "", dicoms |-> scan.dicoms, nz |-> CountNz(scan.dicoms)]

\* lines 444-543: everything before the output is touched
Validate(kind, entries) ==
  IF kind = "none" THEN Rejected("cannot find file", <<>>)
  ELSE IF kind # "dir" THEN Rejected("is not a directory", <<>>)
  ELSE Validated(ScanDir(entries, <<>>))

\* lines 545-553: the output's fields, from the first record of the list
SetOutput(imIn, dicoms, nz) ==
  WithGeometry(imIn, dicoms[1].nx, dicoms[1].ny, nz, dicoms[1].nc, dicoms[1])

\* line 558: std::sort leaves the list in some order that operator< accepts;
\* which one, among records of equal instance number, is unspecified
SortResults(dicoms) ==
  { [k \in 1..Len(dicoms) |-> dicoms[p[k]]] :
      p \in {q \in PermsOf[Len(dicoms)] :
                \A i, j \in 1..Len(dicoms) :
                   i < j => ~DicomLess(dicoms[q[j]], dicoms[q[i]])} }

FileNamed(entries, name) ==
  entries[CHOOSE i \in 1..Len(entries) : entries[i].name = name]

\* A variant of AdvanceOffset that counts one plane for every file.
AdvanceOffsetByOne(off_z, slice) == off_z + 1

\* line 586
AdvanceOffset(off_z, slice) == off_z + slice.nz

\* lines 578-584: the planes of the slice, at z + off_z
CopySlice(out, slice, off_z) ==
  [out EXCEPT !.data =
     [z \in 1..Len(out.data) |->
        IF z > off_z /\ z <= off_z + slice.nz THEN slice.data[z - off_z]
        ELSE out.data[z]]]

Placed(st, d, slice) ==
  [off_z |-> AdvanceOffset(st.off_z, slice),
   placed |-> Append(st.placed, [name |-> d.filename, instance |-> d.instance,
                                 start |-> st.off_z, len |-> slice.nz])]

\* lines 564-587: the copy loop from the k-th sorted record on.  `lost' is
\* the index of the record whose read_dcm call fails for a reason outside
\* the file (line 570 keeps the c_str() of a temporary: the name read_dcm
\* gets is either still intact or no file's name), 0 when there is none.
RECURSIVE CopyLoop(_, _, _, _, _, _)
CopyRecord(entries, sorted, k, lost, out, st, r) ==
  IF k = lost \/ r.ret # SUCCESS
  THEN [ret |-> FAILURE, im |-> out, off_z |-> st.off_z, placed |-> st.placed]
  ELSE CopyLoop(entries, sorted, k + 1, lost, CopySlice(out, r.im, st.off_z),
                Placed(st, sorted[k], r.im))

CopyLoop(entries, sorted, k, lost, out, st) ==
  IF k > Len(sorted)
  THEN [ret |-> SUCCESS, im |-> out, off_z |-> st.off_z, placed |-> st.placed]
  ELSE CopyRecord(entries, sorted, k, lost, out, st,
                  read_dcm_cpp(FileNamed(entries, sorted[k].filename), init_im, FALSE))

\* What a call may meet once the list is accepted: whether im_resize fails,
\* the order std::sort leaves, and `lost'.
EnvsAfter(v, mayFail) ==
  IF v.ret # SUCCESS
  THEN {[resizeFails |-> FALSE, sorted |-> <<>>, lost |-> 0]}
  ELSE (IF mayFail THEN {[resizeFails |-> TRUE, sorted |-> <<>>, lost |-> 0]} ELSE {})
       \cup {[resizeFails |-> FALSE, sorted |-> s, lost |-> l] :
               s \in SortResults(v.dicoms), l \in 0..Len(v.dicoms)}

ReadEnvs(kind, entries, mayFail) == EnvsAfter(Validate(kind, entries), mayFail)

ReadResult(val, why, i, v, c) ==
  [ret |-> val, diag |-> why, im |-> i, nz |-> v.nz, off_z |-> c.off_z,
   placed |-> c.placed, dicoms |-> v.dicoms]

NotCopied == [off_z |-> 0, placed |-> <<>>]

\* lines 588-591: assert(off_z == nz), and the return
Finish(imIn, v, c) ==
  IF c.ret # SUCCESS THEN ReadResult(FAILURE, "read_dcm", c.im, v, c)
  ELSE IF c.off_z # v.nz THEN ReadResult("ABORT", "assert", c.im, v, c)
  ELSE ReadResult(SUCCESS, "", c.im, v, c)

\* lines 545-591, for a list the tests accepted
Assemble(entries, imIn, v, env, out) ==
  IF env.resizeFails THEN ReadResult(FAILURE, "im_resize", out, v, NotCopied)
  ELSE Finish(imIn, v,
              CopyLoop(entries, env.sorted, 1, env.lost, im_resize(out), NotCopied))

\* A variant of ReadChecked that sets the output's fields before the tests.
ReadOutputFirst(entries, imIn, v, env) ==
  IF v.ret # SUCCESS
  THEN ReadResult(FAILURE, v.diag,
                  IF v.dicoms = <<>> THEN im_resize(imIn)
                  ELSE SetOutput(imIn, v.dicoms, v.nz), v, NotCopied)
  ELSE Assemble(entries, imIn, v, env, SetOutput(imIn, v.dicoms, v.nz))

\* lines 444-555: the tests come first, then the output is set
ReadChecked(entries, imIn, v, env) ==
  IF v.ret # SUCCESS THEN ReadResult(FAILURE, v.diag, imIn, v, NotCopied)
  ELSE Assemble(entries, imIn, v, env, SetOutput(imIn, v.dicoms, v.nz))

read_dcm_dir_cpp(kind, entries, imIn, env) ==
  ReadChecked(entries, imIn, Validate(kind, entries), env)

(***************************************************************************)
(* Dcm_meta and the strings it points to.  The fields of a Dcm_meta are    *)
(* const char pointers: a pointer is the name of a buffer, and `mem' maps  *)
(* each buffer to the string it holds.                                     *)
(***************************************************************************)
\* char buf[1024] of default_Dcm_meta (line 297): automatic storage that
\* ends when default_Dcm_meta returns
DefBuf == "default_Dcm_meta.buf"
\* char buf[BUF_LEN] of the loop of write_dcm_dir_cpp (line 856)
DirBuf == "write_dcm_dir_cpp.buf"

Junk == <<"junk", 0>>

Mem0 ==
  [b \in {DefBuf, DirBuf, "default_patient_name", "default_patient_id",
          "default_series_descrip", "caller_patient_name", "caller_patient_id",
          "caller_study_uid", "caller_series_uid", "caller_series_descrip",
          "caller_instance_uid"} |->
     IF b \in {DefBuf, DirBuf} THEN Junk ELSE <<b, 0>>]

\* A complete Dcm_meta of the caller's.
CallerMeta ==
  [patient_name |-> "caller_patient_name", patient_id |-> "caller_patient_id",
   study_uid |-> "caller_study_uid", series_uid |-> "caller_series_uid",
   series_descrip |-> "caller_series_descrip", instance_uid |-> "caller_instance_uid",
   instance_num |-> 7]

MetaArgs == {[null |-> TRUE, m |-> CallerMeta], [null |-> FALSE, m |-> CallerMeta]}

\* dcmGenerateUniqueIdentifier(buf, root): a new identifier under `root',
\* written to buf; the n-th identifier generated is <<root, n>>
dcmGenerateUniqueIdentifier(m, ctr, buf, root) ==
  [mem |-> [m EXCEPT ![buf] = <<root, ctr + 1>>], uidctr |-> ctr + 1, uid |-> <<root, ctr + 1>>]

\* default_Dcm_meta (lines 295-308): the three calls write to the one buf,
\* and each field keeps the pointer the call returns
default_Dcm_meta(m, ctr) ==
  [meta |-> [patient_name |-> "default_patient_name",
             patient_id |-> "default_patient_id",
             study_uid |-> DefBuf, series_uid |-> DefBuf,
             series_descrip |-> "default_series_descrip",
             instance_uid |-> DefBuf,
             instance_num |-> default_instance_num],
   mem |-> [m EXCEPT ![DefBuf] = <<"SITE_INSTANCE_UID_ROOT", ctr + 3>>],
   uidctr |-> ctr + 3,
   gen |-> [study |-> dcmGenerateUniqueIdentifier(m, ctr, DefBuf, "SITE_STUDY_UID_ROOT").uid,
            series |-> dcmGenerateUniqueIdentifier(m, ctr + 1, DefBuf, "SITE_SERIES_UID_ROOT").uid,
            instance |-> dcmGenerateUniqueIdentifier(m, ctr + 2, DefBuf, "SITE_INSTANCE_UID_ROOT").uid]]

NoGen == [study |-> NoString, series |-> NoString, instance |-> NoString]

\* set_meta_defaults (lines 594-602)
set_meta_defaults(arg, m, ctr) ==
  IF arg.null THEN default_Dcm_meta(m, ctr)
  ELSE [meta |-> arg.m, mem |-> m, uidctr |-> ctr, gen |-> NoGen]

\* The string a read through pointer p yields.  A buffer whose lifetime has
\* ended holds either what was last written to it or whatever the stack has
\* put there since (`pick').
ReadString(m, p, pick) ==
  IF p = DefBuf /\ pick # "stale" THEN Junk ELSE m[p]

Picks(p) == IF p = DefBuf THEN {"stale", "junk"} ELSE {"stale"}

(***************************************************************************)
(* write_dcm_cpp (lines 604-814)                                           *)
(***************************************************************************)
\* The toolkit calls of write_dcm_cpp, in the order they are made.
Steps ==
  << "ImageType", "SOPClassUID", "PhotometricInterpretation", "PatientName",
     "PatientID", "StudyInstanceUID", "SeriesInstanceUID", "SeriesDescription",
     "SOPInstanceUID", "Rows", "Columns", "NumberOfFrames", "InstanceNumber",
     "SliceLocation", "PixelSpacing", "PixelAspectRatio", "SliceThickness",
     "PixelData", "canWriteXfer", "saveFile" >>

StepSet == {Steps[k] : k \in 1..Len(Steps)}

\* The call whose result the test that follows call `step' reads: line 634
\* drops the result of the SOPClassUID call, so that the test of line 636
\* reads the status of the image type again; no test follows the call of
\* line 643.
Tested(step) ==
  CASE step = "SOPClassUID" -> "ImageType"
    [] step = "PhotometricInterpretation" -> "none"
    [] OTHER -> step

\* the first call after which write_dcm_cpp returns SIFT3D_FAILURE, 0 if none
FirstDetected(failed) ==
  IF \A k \in 1..Len(Steps) : Tested(Steps[k]) \notin failed THEN 0
  ELSE CHOOSE k \in 1..Len(Steps) :
         /\ Tested(Steps[k]) \in failed
         /\ \A j \in 1..(k - 1) : Tested(Steps[j]) \notin failed

\* lines 769-776: static_cast<uint8_t>(v * 255.0f).  The conversion drops
\* the fraction; a product outside 0..255 is undefined, and the builds give
\* either the low byte or the nearest end of the range (`pick').
CastU8(v, pick) ==
  IF v >= 0 /\ (v * 255) \div VoxDen <= 255 THEN (v * 255) \div VoxDen
  ELSE IF pick = "wrap" THEN ((v * 255) \div VoxDen) % 256
  ELSE IF v < 0 THEN 0 ELSE 255

CastPicks(i) ==
  IF \E z \in 1..Len(i.data) : i.data[z] < 0 \/ (i.data[z] * 255) \div VoxDen > 255
  THEN {"wrap", "sat"} ELSE {"wrap"}

\* The file write_dcm_cpp builds from the image and the metadata (lines
\* 646-776).
BuildFile(name, i, mn, m, env) ==
  [ name |-> name, fmt |-> name.ext, corrupt |-> FALSE,
    missing |-> env.failed \cap StepSet,
    series |-> ReadString(m, mn.series_uid, env.seriesPick),
    instance |-> mn.instance_num,
    rows |-> i.nx, cols |-> i.ny, frames |-> i.nz,
    mono |-> "PhotometricInterpretation" \notin env.failed,
    ps |-> BracketedList(<<i.ux, i.uy>>), aspect |-> BracketedList(<<i.ux, i.uy>>),
    thick |-> DecimalString(<<i.uz>>),
    sliceLoc |-> i.uz * (mn.instance_num - 1),
    pixels |-> [z \in 1..Len(i.data) |-> CastU8(i.data[z], env.castPick)],
    decodable |-> TRUE,
    study |-> ReadString(m, mn.study_uid, env.studyPick),
    sopuid |-> ReadString(m, mn.instance_uid, env.instancePick),
    patient |-> ReadString(m, mn.patient_name, "stale"),
    patientId |-> ReadString(m, mn.patient_id, "stale"),
    descrip |-> ReadString(m, mn.series_descrip, "stale") ]

\* What a call of write_dcm_cpp may meet: the toolkit call that fails (at
\* most one), and what the reads through dead pointers and the undefined
\* casts yield.
EnvsOf(i, mn, mayFail) ==
  { [failed |-> fl, studyPick |-> a, seriesPick |-> b, instancePick |-> c, castPick |-> d] :
      fl \in {{}} \cup {{Steps[k]} : k \in {j \in 1..Len(Steps) : mayFail}},
      a \in Picks(mn.study_uid), b \in Picks(mn.series_uid),
      c \in Picks(mn.instance_uid), d \in CastPicks(i) }

WriteEnvs(i, arg, mayFail) == EnvsOf(i, set_meta_defaults(arg, Mem0, 0).meta, mayFail)

WriteResult(val, why, file, d) ==
  [ret |-> val, diag |-> why, saved |-> val = SUCCESS, file |-> file,
   mem |-> d.mem, uidctr |-> d.uidctr, gen |-> d.gen, meta_new |-> d.meta]

\* lines 620-813: the toolkit calls, up to the first whose failure is seen
WriteFile(k, file, d) ==
  IF k # 0 THEN WriteResult(FAILURE, Steps[k], file, d)
  ELSE WriteResult(SUCCESS, "", file, d)

WriteMeta(name, i, env, d) ==
  WriteFile(FirstDetected(env.failed), BuildFile(name, i, d.meta, d.mem, env), d)

write_dcm_cpp(name, i, arg, m, ctr, env) ==
  IF i.nc # 1
  THEN WriteResult(FAILURE, "channels", BuildFile(name, i, arg.m, m, env),
                   [meta |-> arg.m, mem |-> m, uidctr |-> ctr, gen |-> NoGen])
  ELSE WriteMeta(name, i, env, set_meta_defaults(arg, m, ctr))

\* DcmFileFormat::saveFile: the file replaces the entry of its name, or is
\* a new entry of the directory
saveFile(entries, f) ==
  IF \E k \in 1..Len(entries) : entries[k].name = f.name
  THEN [k \in 1..Len(entries) |-> IF entries[k].name = f.name THEN f ELSE entries[k]]
  ELSE Append(entries, f)

(***************************************************************************)
(* write_dcm_dir_cpp (lines 816-888)                                       *)
(***************************************************************************)
IntMin == (-2147483647) - 1

RECURSIVE CeilLog10(_)
CeilLog10(n) == IF n <= 1 THEN 0 ELSE 1 + CeilLog10((n + 9) \div 10)

RECURSIVE FloorLog10(_)
FloorLog10(n) == IF n < 10 THEN 0 ELSE 1 + FloorLog10(n \div 10)

\* A variant of NumZeros that rounds the logarithm down.
NumZerosFloor(num_slices) ==
  IF num_slices >= 1 THEN {FloorLog10(num_slices)} ELSE {IntMin, 0}

\* lines 830-832: static_cast<int>(ceil(log10(num_slices))).  log10 of 0 is
\* minus infinity and of a negative count is no number; the cast of either
\* is undefined, and gives INT_MIN or 0.
NumZeros(num_slices) ==
  IF num_slices >= 1 THEN {CeilLog10(num_slices)} ELSE {IntMin, 0}

RECURSIVE DecDigits(_)
DecDigits(n) == IF n < 10 THEN <<n>> ELSE Append(DecDigits(n \div 10), n % 10)

Padded(num_zeros, ds) ==
  [k \in 1..(IF num_zeros > Len(ds) THEN num_zeros - Len(ds) ELSE 0) |-> 0] \o ds

\* lines 837, 857: snprintf(buf, BUF_LEN, "%0<num_zeros>d.dcm", i)
SliceName(num_zeros, i) == [stem |-> Padded(num_zeros, DecDigits(i)), ext |-> ext_dcm]

\* lines 840-845: the slice buffer; init_im's spacing stays
SliceBuffer(i) ==
  im_default_stride([init_im EXCEPT !.nx = i.nx, !.ny = i.ny, !.nz = 1, !.nc = i.nc])

\* lines 862-867: the plane z = i of the image, into the slice buffer
CopyPlane(slice, i, z) == [slice EXCEPT !.data = <<i.data[z + 1]>>]

\* line 874
InstanceOf(i) == i + 1

\* A variant of WriteFailed that takes every write for a success.
WriteFailedNever(val) == FALSE

\* line 878: if (write_dcm(...))
WriteFailed(val) == val # SUCCESS

\* lines 870-875: the metadata of slice i
SliceMeta(meta_new, i) ==
  [meta_new EXCEPT !.instance_uid = DirBuf, !.instance_num = InstanceOf(i)]

(***************************************************************************)
(* The state machine.  The caller makes the calls of `todo' one after the  *)
(* other and stops at the first that fails.  `last', `wr' and the log of   *)
(* `wd' record what the last calls were given and did.                     *)
(***************************************************************************)
Call(op, d) == [op |-> op, dir |-> d]

\* the volumes a caller builds to write: plane z holds the value (z-1)/VoxDen
CallerVolumes ==
  { im_default_stride(
      [nx |-> 2, ny |-> 1, nz |-> n, nc |-> c, ux |-> u[1], uy |-> u[2], uz |-> u[3],
       strides |-> <<0, 0, 0>>, data |-> [z \in 1..n |-> z - 1]]) :
      n \in 0..MaxNz, c \in {1, 2}, u \in {<<1, 1, 1>>, <<2, 4, 3>>} }

\* the name the caller gives write_dcm
CallerPath == [stem |-> <<9>>, ext |-> ext_dcm]

LastNone ==
  [dir |-> "", entry |-> init_im, entries |-> <<>>,
   env |-> [resizeFails |-> FALSE, sorted |-> <<>>, lost |-> 0],
   nz |-> 0, off_z |-> 0, placed |-> <<>>, dicoms |-> <<>>]

WdNone ==
  [dir |-> "", i |-> 0, num_slices |-> 0, num_zeros |-> 0, null |-> FALSE,
   meta_new |-> CallerMeta, slice |-> init_im, log |-> <<>>]

WrNone ==
  [name |-> CallerPath, null |-> FALSE, failed |-> {}, ret |-> "none", saved |-> FALSE,
   gen |-> NoGen, file |-> Named(InputKinds[1], <<0>>)]

InitCommon ==
  /\ pc = "idle"
  /\ ret = [op |-> "none", val |-> "none"]
  /\ diag = ""
  /\ wd = WdNone
  /\ wr = WrNone
  /\ mem = Mem0
  /\ uidctr = 0
  /\ last = LastNone

InputDir ==
  \/ /\ fskind = [d \in Dirs |-> "dir"]
     /\ \E l \in InputDirs : fs = [d \in Dirs |-> IF d = "D" THEN l ELSE <<>>]
  \/ /\ \E k \in {"none", "file"} : fskind = [d \in Dirs |-> IF d = "D" THEN k ELSE "dir"]
     /\ fs = [d \in Dirs |-> <<>>]

\* A caller that reads directory D, in a run in which the allocator and the
\* toolkit may fail.
InitRead ==
  /\ InputDir
  /\ im = Im0
  /\ meta = [null |-> TRUE, m |-> CallerMeta]
  /\ faults = TRUE
  /\ todo = <<Call("read_dcm_dir", "D")>>

\* A caller that reads directory D and, when that gave a volume of at most
\* MaxNz planes, writes it to the empty directory E and reads E back, in a
\* run in which neither the allocator nor the toolkit fails.
InitRoundTrip ==
  /\ InputDir
  /\ im = Im0
  /\ meta \in MetaArgs
  /\ faults = FALSE
  /\ todo = <<Call("read_dcm_dir", "D"), Call("write_dcm_dir", "E"), Call("read_dcm_dir", "E")>>

\* A caller that writes a volume of its own to the empty directory E.
InitWrite ==
  /\ fskind = [d \in Dirs |-> "dir"]
  /\ fs = [d \in Dirs |-> <<>>]
  /\ im \in CallerVolumes
  /\ meta \in MetaArgs
  /\ faults = TRUE
  /\ todo \in {<<Call("write_dcm_dir", "E")>>, <<Call("write_dcm", "E")>>}

Init == InitCommon /\ (InitRead \/ InitRoundTrip \/ InitWrite)

Calling(op) == pc = "idle" /\ todo # <<>> /\ Head(todo).op = op

Rest(val) == IF val = SUCCESS THEN Tail(todo) ELSE <<>>

\* the entries of a directory in the order readdir hands them out
Enumerate(l, p) == [k \in 1..Len(l) |-> l[p[k]]]

ReadReturn(d, entries, env, r) ==
  /\ im' = r.im
  /\ ret' = [op |-> "read_dcm_dir", val |-> r.ret]
  /\ diag' = r.diag
  /\ last' = [dir |-> d, entry |-> im, entries |-> entries, env |-> env,
              nz |-> r.nz, off_z |-> r.off_z, placed |-> r.placed,
              dicoms |-> r.dicoms]
  /\ todo' = Rest(r.ret)

ReadCall(d, entries) ==
  \E env \in ReadEnvs(fskind[d], entries, faults) :
    ReadReturn(d, entries, env, read_dcm_dir_cpp(fskind[d], entries, im, env))

\* read_dcm_dir (lines 320-329)
ReadDcmDir ==
  /\ Calling("read_dcm_dir")
  /\ \E p \in PermsOf[Len(fs[Head(todo).dir])] :
       ReadCall(Head(todo).dir, Enumerate(fs[Head(todo).dir], p))
  /\ UNCHANGED <<fskind, fs, meta, faults, pc, wd, wr, mem, uidctr>>

WrOf(name, arg, env, r) ==
  [name |-> name, null |-> arg.null, failed |-> env.failed, ret |-> r.ret,
   saved |-> r.saved, gen |-> r.gen, file |-> r.file]

\* what a call of write_dcm leaves behind
Written(d, name, arg, env, r) ==
  /\ fs' = IF r.saved THEN [fs EXCEPT ![d] = saveFile(fs[d], r.file)] ELSE fs
  /\ mem' = r.mem
  /\ uidctr' = r.uidctr
  /\ wr' = WrOf(name, arg, env, r)

WriteReturn(d, env, r) ==
  /\ Written(d, CallerPath, meta, env, r)
  /\ ret' = [op |-> "write_dcm", val |-> r.ret]
  /\ diag' = r.diag
  /\ todo' = Rest(r.ret)

\* write_dcm (lines 339-347)
WriteDcm ==
  /\ Calling("write_dcm")
  /\ \E env \in WriteEnvs(im, meta, faults) :
       WriteReturn(Head(todo).dir, env, write_dcm_cpp(CallerPath, im, meta, mem, uidctr, env))
  /\ UNCHANGED <<fskind, im, meta, faults, pc, wd, last>>

WdEnter(d, nzs, resizeFails) ==
  /\ mem' = d.mem
  /\ uidctr' = d.uidctr
  /\ wd' = [dir |-> Head(todo).dir, i |-> 0, num_slices |-> im.nz,
            num_zeros |-> nzs, null |-> meta.null, meta_new |-> d.meta,
            slice |-> IF resizeFails THEN SliceBuffer(im)
                      ELSE im_resize(SliceBuffer(im)),
            log |-> <<>>]
  /\ IF resizeFails
     THEN /\ pc' = "idle"
          /\ ret' = [op |-> "write_dcm_dir", val |-> FAILURE]
          /\ diag' = "im_resize"
          /\ todo' = <<>>
     ELSE /\ pc' = "wd_loop"
          /\ UNCHANGED <<ret, diag, todo>>

\* write_dcm_dir_cpp, lines 817-849: up to the loop
WdBegin ==
  /\ Calling("write_dcm_dir")
  /\ im.nz <= MaxNz
  /\ \E nzs \in NumZeros(im.nz), resizeFails \in {FALSE, faults} :
       WdEnter(set_meta_defaults(meta, mem, uidctr), nzs, resizeFails)
  /\ UNCHANGED <<fskind, fs, im, meta, faults, wr, last>>

\* lines 878-882: the slice is written, or the call is over
WdWritten(name, slice, mn, r) ==
  /\ wd' = [wd EXCEPT !.slice = slice, !.meta_new = mn,
                      !.log = Append(wd.log, [i |-> wd.i, name |-> name,
                                              ret |-> r.ret, file |-> r.file]),
                      !.i = IF WriteFailed(r.ret) THEN wd.i ELSE wd.i + 1]
  /\ IF WriteFailed(r.ret)
     THEN /\ pc' = "idle"
          /\ ret' = [op |-> "write_dcm_dir", val |-> FAILURE]
          /\ diag' = r.diag
          /\ todo' = <<>>
     ELSE UNCHANGED <<pc, ret, diag, todo>>

WdWrite(name, slice, g, arg) ==
  \E env \in WriteEnvs(slice, arg, faults) :
    /\ Written(wd.dir, name, arg, env,
               write_dcm_cpp(name, slice, arg, g.mem, g.uidctr, env))
    /\ WdWritten(name, slice, arg.m,
                 write_dcm_cpp(name, slice, arg, g.mem, g.uidctr, env))

\* lines 852-882: one turn of the loop
WdSlice ==
  /\ pc = "wd_loop"
  /\ wd.i < wd.num_slices
  /\ WdWrite(SliceName(wd.num_zeros, wd.i), CopyPlane(wd.slice, im, wd.i),
             dcmGenerateUniqueIdentifier(mem, uidctr, DirBuf, "SITE_INSTANCE_UID_ROOT"),
             [null |-> FALSE, m |-> SliceMeta(wd.meta_new, wd.i)])
  /\ UNCHANGED <<fskind, im, meta, faults, last>>

\* lines 884-887: the loop is over
WdReturn ==
  /\ pc = "wd_loop"
  /\ wd.i >= wd.num_slices
  /\ pc' = "idle"
  /\ ret' = [op |-> "write_dcm_dir", val |-> SUCCESS]
  /\ diag' = ""
  /\ todo' = Tail(todo)
  /\ UNCHANGED <<fskind, fs, im, meta, faults, wd, wr, mem, uidctr, last>>

Next == ReadDcmDir \/ WriteDcm \/ WdBegin \/ WdSlice \/ WdReturn

Spec == Init /\ [][Next]_vars

\* the caller that only reads
InitReader == InitCommon /\ InitRead

SpecRead == InitReader /\ [][ReadDcmDir]_vars

\* the caller that only writes
NextWrite == WriteDcm \/ WdBegin \/ WdSlice \/ WdReturn

InitWriter == InitCommon /\ InitWrite

SpecWrite == InitWriter /\ [][NextWrite]_vars

\* The file names of write_dcm_dir_cpp on their own: the width of lines
\* 830-832 for a volume of 1..MaxSlices planes, then the name of line 857
\* for i = 0, 1, ... in the order of the loop.  The log keeps the names.
InitNames ==
  /\ pc = "wd_names"
  /\ ret = [op |-> "none", val |-> "none"]
  /\ diag = ""
  /\ \E n \in 1..MaxSlices : \E nzs \in NumZeros(n) :
       wd = [WdNone EXCEPT !.dir = "E", !.num_slices = n, !.num_zeros = nzs]
  /\ wr = WrNone
  /\ mem = Mem0
  /\ uidctr = 0
  /\ last = LastNone
  /\ fskind = [d \in Dirs |-> "dir"]
  /\ fs = [d \in Dirs |-> <<>>]
  /\ im = init_im
  /\ meta = [null |-> FALSE, m |-> CallerMeta]
  /\ faults = FALSE
  /\ todo = <<>>

\* lines 852-857: the name of slice i
FormName ==
  /\ pc = "wd_names"
  /\ wd.i < wd.num_slices
  /\ wd' = [wd EXCEPT !.log = Append(wd.log, [i |-> wd.i,
                                              name |-> SliceName(wd.num_zeros, wd.i)]),
                      !.i = wd.i + 1]
  /\ UNCHANGED <<fskind, fs, im, meta, faults, todo, pc, ret, diag, wr, mem, uidctr, last>>

SpecNames == InitNames /\ [][FormName]_vars

(***************************************************************************)
(* Properties of read_dcm_dir.  After a call, `last' holds what the call   *)
(* was given: the image on entry, the entries as readdir handed them out,  *)
(* the records of the list, and where each file's frames were put.         *)
(***************************************************************************)
ReadReturned == ret.op = "read_dcm_dir"

ReadSucceeded == ReadReturned /\ ret.val = SUCCESS

SeriesMismatch == ret.val = FAILURE /\ diag = "is from a different series"

IsCandidate(e) == im_get_format(e.name) = "DICOM"

\* records with identical (nx, ny, nc)
SameDims(dicoms) ==
  \A i \in 1..Len(dicoms) :
    /\ dicoms[i].nx = dicoms[1].nx
    /\ dicoms[i].ny = dicoms[1].ny
    /\ dicoms[i].nc = dicoms[1].nc

\* C1: for a list of N >= 1 valid records with identical (nx, ny, nc), the
\* series check rejects the set (failure, series-mismatch diagnostic) if and
\* only if some record's series identifier differs from the first record's.
C1_SeriesCheckIffDiffers ==
  (ReadReturned /\ Len(last.dicoms) >= 1 /\ SameDims(last.dicoms))
    => (SeriesMismatch
          <=> \E i \in 1..Len(last.dicoms) :
                last.dicoms[i].seriesUID # last.dicoms[1].seriesUID)

\* N >= 2 valid slice files of one series, with identical in-plane
\* dimensions and the instance numbers 1..N
OneSeries(entries) ==
  /\ Len(entries) >= 2
  /\ \A i \in 1..Len(entries) :
       /\ IsCandidate(entries[i])
       /\ DicomValid(entries[i])
       /\ entries[i].series = entries[1].series
       /\ entries[i].rows = entries[1].rows
       /\ entries[i].cols = entries[1].cols
  /\ {entries[i].instance : i \in 1..Len(entries)} = 1..Len(entries)

\* the outcome r is the outcome of the call that returned
SameOutcome(r) == r.ret = ret.val /\ (ret.val = SUCCESS => r.im = im)

\* the outcomes of the call on the entries in the order p, when neither the
\* allocator nor the file name is lost
OutcomesIn(entries, p) ==
  { read_dcm_dir_cpp("dir", Enumerate(entries, p), last.entry, env) :
      env \in {x \in ReadEnvs("dir", Enumerate(entries, p), FALSE) : x.lost = 0} }

OneSeriesRead ==
  /\ ReadReturned
  /\ last.dir = "D"
  /\ fskind["D"] = "dir"
  /\ OneSeries(last.entries)
  /\ ~last.env.resizeFails
  /\ last.env.lost = 0

RECURSIVE FrameSum(_)
FrameSum(entries) ==
  IF entries = <<>> THEN 0
  ELSE (IF IsCandidate(Head(entries)) THEN Head(entries).frames ELSE 0)
       + FrameSum(Tail(entries))

RECURSIVE StartOf(_, _)
StartOf(placed, k) ==
  IF k <= 1 THEN 0 ELSE StartOf(placed, k - 1) + placed[k - 1].len

\* the k-th file copied holds its frames at the planes that follow those of
\* the files copied before it
PlacedInOrder(k) ==
  /\ last.placed[k].start = StartOf(last.placed, k)
  /\ last.placed[k].len = FileNamed(last.entries, last.placed[k].name).frames
  /\ k > 1 => last.placed[k - 1].instance <= last.placed[k].instance
  /\ \A z \in 1..last.placed[k].len :
       im.data[last.placed[k].start + z] =
         VoxDen * FileNamed(last.entries, last.placed[k].name).pixels[z]

\* C3: when read_dcm_dir returns success, the volume has nc = 1, nx and
\* ny >= 1, spacings > 0, nz the sum of the frame counts of all records, and
\* the frames of the records at consecutive z ranges that do not overlap, in
\* ascending order of instance number; off_z = nz when the copy loop ends,
\* so that assert(off_z == nz) never fails.
C3_SuccessVolume ==
  /\ ret.val # "ABORT"
  /\ ReadSucceeded =>
       /\ im.nc = 1 /\ im.nx >= 1 /\ im.ny >= 1
       /\ im.ux > 0 /\ im.uy > 0 /\ im.uz > 0
       /\ im.nz = FrameSum(last.entries)
       /\ Len(im.data) = im.nz
       /\ last.off_z = im.nz
       /\ Len(last.placed) = Len(last.dicoms)
       /\ \A k \in 1..Len(last.placed) : PlacedInOrder(k)

\* a success with a file of two frames before another file
C3_Witness ==
  /\ ReadSucceeded
  /\ Len(last.placed) >= 2
  /\ last.placed[1].len = 2
  /\ last.placed[2].start = 2
  /\ last.placed[1].instance < last.placed[2].instance

ValidationDiags ==
  {"no dicom files found", "invalid record", "is from a different series",
   "does not match the dimensions"}

\* C8: when read_dcm_dir fails during validation (no matching file, an
\* invalid record, a series mismatch, a dimension mismatch), the caller's
\* volume is as it was on entry: dimensions, spacing, strides and data.
C8_ValidationLeavesOutput ==
  (ReadReturned /\ ret.val = FAILURE /\ diag \in ValidationDiags)
    => im = last.entry

\* a set of several records has been rejected for its dimensions
C8_Witness ==
  /\ ReadReturned
  /\ ret.val = FAILURE
  /\ diag = "does not match the dimensions"
  /\ Len(last.dicoms) >= 2
  /\ im = Im0

\* C9: if a directory entry with the DICOM extension yields an invalid
\* record, or a record's pixel payload cannot be read in the copy phase,
\* read_dcm_dir returns failure: a success means every candidate was valid
\* and readable and the frames of every one were copied.
C9_NoSliceSkipped ==
  ReadSucceeded =>
    /\ last.env.lost = 0
    /\ \A i \in 1..Len(last.entries) :
         IsCandidate(last.entries[i]) =>
           /\ DicomValid(last.entries[i])
           /\ last.entries[i].decodable
           /\ \E k \in 1..Len(last.placed) :
                /\ last.placed[k].name = last.entries[i].name
                /\ last.placed[k].len = last.entries[i].frames

\* the copy phase has failed at a payload that does not decode, after the
\* frames of another file were copied
C9_Witness ==
  /\ ReadReturned
  /\ ret.val = FAILURE
  /\ diag = "read_dcm"
  /\ last.env.lost = 0
  /\ Len(last.placed) >= 1
  /\ \E i \in 1..Len(last.entries) :
       IsCandidate(last.entries[i]) /\ ~last.entries[i].decodable

DimensionMismatch == ret.val = FAILURE /\ diag = "does not match the dimensions"

\* the list of records has passed the series check
SeriesCheckPassed == ReadReturned /\ Len(last.dicoms) >= 1 /\ ~SeriesMismatch

\* C12: in read_dcm_dir, after the series check has passed, the call fails
\* with the dimension-mismatch diagnostic if and only if some record's
\* (nx, ny, nc) differs from the first record's; records that agree on
\* (nx, ny, nc) but differ in spacing are accepted, and the volume's spacing
\* is that of the first record of the list.
C12_DimensionCheck ==
  SeriesCheckPassed =>
    /\ DimensionMismatch <=> ~SameDims(last.dicoms)
    /\ SameDims(last.dicoms) =>
         /\ diag \notin ValidationDiags
         /\ im.ux = last.dicoms[1].ux
         /\ im.uy = last.dicoms[1].uy
         /\ im.uz = last.dicoms[1].uz

\* a success for two records of equal dimensions and different spacing,
\* the first of the list being the one of the greater instance number
C12_Witness ==
  /\ ReadSucceeded
  /\ Len(last.dicoms) = 2
  /\ SameDims(last.dicoms)
  /\ last.dicoms[1].instance > last.dicoms[2].instance
  /\ last.dicoms[1].ux # last.dicoms[2].ux
  /\ last.dicoms[1].uz # last.dicoms[2].uz
  /\ im.ux = last.dicoms[1].ux
  /\ im.uz = last.dicoms[1].uz

\* the call that returned has the outcome r
SameReturn(r) == r.ret = ret.val /\ r.diag = diag /\ r.im = im

\* C14: read_dcm_dir ignores every directory entry whose extension is not
\* the DICOM extension: no such entry is loaded, and the call has the
\* outcome it has on the directory without these entries; it returns
\* failure when no entry of the directory has the DICOM extension.
C14_OtherEntriesIgnored ==
  (ReadReturned /\ fskind[last.dir] = "dir") =>
    /\ \A k \in 1..Len(last.dicoms) :
         im_get_format(last.dicoms[k].filename) = "DICOM"
    /\ SameReturn(read_dcm_dir_cpp("dir", SelectSeq(last.entries, IsCandidate),
                                   last.entry, last.env))
    /\ (\A i \in 1..Len(last.entries) : ~IsCandidate(last.entries[i])) =>
         (ret.val = FAILURE /\ diag = "no dicom files found")

\* a success on a directory that holds an entry of another extension
\* between two slice files
C14_Witness ==
  /\ ReadSucceeded
  /\ Len(last.entries) = 3
  /\ IsCandidate(last.entries[1])
  /\ ~IsCandidate(last.entries[2])
  /\ IsCandidate(last.entries[3])
  /\ Len(last.dicoms) = 2

(***************************************************************************)
(* Properties of write_dcm and write_dcm_dir.  `wr' holds what the last    *)
(* call of write_dcm was given and did, the log of `wd' the slices that a  *)
(* call of write_dcm_dir has handed to write_dcm.                          *)
(***************************************************************************)
DirSucceeded == ret = [op |-> "write_dcm_dir", val |-> SUCCESS]

\* the file of z-index i: its instance number and its pixel plane
SliceFileOf(f, i) ==
  /\ f.name = SliceName(wd.num_zeros, i)
  /\ f.instance = i + 1
  /\ \E pick \in {"wrap", "sat"} : f.pixels = <<CastU8(im.data[i + 1], pick)>>

\* C4: when write_dcm_dir returns success for a volume with nz >= 1, exactly
\* nz files were written, the file of z-index i carries instance number i+1
\* and the plane z = i, all files carry one study UID and one series UID,
\* and their instance UIDs are pairwise distinct; with metadata of the
\* caller's and with NULL metadata.
C4_DirectoryWritten ==
  (DirSucceeded /\ wd.num_slices >= 1) =>
    /\ Len(fs[wd.dir]) = wd.num_slices
    /\ \A i \in 0..(wd.num_slices - 1) : SliceFileOf(fs[wd.dir][i + 1], i)
    /\ \A a, b \in 1..Len(fs[wd.dir]) :
         /\ fs[wd.dir][a].study = fs[wd.dir][b].study
         /\ fs[wd.dir][a].series = fs[wd.dir][b].series
         /\ a # b => fs[wd.dir][a].sopuid # fs[wd.dir][b].sopuid

\* C5: metadata resolved from NULL holds the default patient name, patient
\* id and series description, instance number 1, and three identifiers:
\* study_uid the one generated from the study root, series_uid the one from
\* the series root, instance_uid the one from the instance root, each still
\* its own value when the metadata is used to write a file.
C5_DefaultsKeepTheirValues ==
  (ret.op = "write_dcm" /\ wr.null /\ wr.saved) =>
    /\ wr.file.patient = Mem0["default_patient_name"]
    /\ wr.file.patientId = Mem0["default_patient_id"]
    /\ wr.file.descrip = Mem0["default_series_descrip"]
    /\ wr.file.instance = default_instance_num
    /\ wr.gen.study[1] = "SITE_STUDY_UID_ROOT"
    /\ wr.gen.series[1] = "SITE_SERIES_UID_ROOT"
    /\ wr.gen.instance[1] = "SITE_INSTANCE_UID_ROOT"
    /\ wr.file.study = wr.gen.study
    /\ wr.file.series = wr.gen.series
    /\ wr.file.sopuid = wr.gen.instance

\* the calls the claim names: the descriptive tags, the pixel data, the save
DescriptiveSteps == StepSet \ {"canWriteXfer"}

\* C6: in write_dcm, if setting one of the descriptive tags or the pixel
\* data fails, or saving the file fails, the call returns failure and no
\* file is reported as written.
C6_TagFailureFails ==
  (ret.op = "write_dcm" /\ wr.failed \cap DescriptiveSteps # {}) =>
    (ret.val = FAILURE /\ ~wr.saved)

\* one 8-bit quantization step, for voxel values kept as v * VoxDen
WithinOneStep(a, b) == (a - b) * 255 <= VoxDen /\ (b - a) * 255 <= VoxDen

\* C7: a volume V assembled by read_dcm_dir, written with write_dcm_dir to
\* an empty directory and read back with read_dcm_dir: the read succeeds
\* and gives the (nx, ny, nz, nc) and the spacing of V, and voxel values
\* within one 8-bit quantization step of V's.
C7_RoundTrip ==
  (ReadReturned /\ last.dir = "E") =>
    /\ ret.val = SUCCESS
    /\ im.nx = last.entry.nx /\ im.ny = last.entry.ny
    /\ im.nz = last.entry.nz /\ im.nc = last.entry.nc
    /\ im.ux = last.entry.ux /\ im.uy = last.entry.uy /\ im.uz = last.entry.uz
    /\ Len(im.data) = Len(last.entry.data)
    /\ \A z \in 1..Len(im.data) : WithinOneStep(im.data[z], last.entry.data[z])

\* C10: in write_dcm_dir, if writing the slice of z-index k fails, the call
\* returns failure at once: no slice of a greater index is attempted or
\* written, and the files of the indices 0..k-1 stay in the directory.
C10_FailsAtFirstFailure ==
  \A k \in 1..Len(wd.log) :
    wd.log[k].ret # SUCCESS =>
      /\ k = Len(wd.log)
      /\ pc = "idle"
      /\ ret = [op |-> "write_dcm_dir", val |-> FAILURE]
      /\ todo = <<>>
      /\ \A j \in 1..k : wd.log[j].i = j - 1
      /\ \A j \in 1..(k - 1) : wd.log[j].ret = SUCCESS
      /\ fs[wd.dir] = [j \in 1..(k - 1) |-> wd.log[j].file]

\* the second slice has failed, and the file of the first is in the directory
C10_Witness ==
  /\ Len(wd.log) = 2
  /\ wd.log[1].ret = SUCCESS
  /\ wd.log[2].ret = FAILURE
  /\ ret = [op |-> "write_dcm_dir", val |-> FAILURE]
  /\ Len(fs[wd.dir]) = 1
  /\ fs[wd.dir][1] = wd.log[1].file

WriteReturned == pc = "idle" /\ ret.op \in {"write_dcm", "write_dcm_dir"}

\* C11: for every volume whose channel count nc is not 1, write_dcm and
\* write_dcm_dir return failure and leave no file behind, for every nz,
\* nz = 0 included.
C11_ChannelsRejected ==
  (WriteReturned /\ im.nc # 1) => (ret.val = FAILURE /\ fs["E"] = <<>>)

\* the characters of a file name: the digits, the dot, "dcm"
NameText(name) == [k \in 1..Len(name.stem) |-> 48 + name.stem[k]] \o <<46, 100, 99, 109>>

\* a comes before b in the order of strcmp
LexLess(a, b) ==
  \E k \in 1..Len(b) :
    /\ \A j \in 1..(k - 1) : j <= Len(a) /\ a[j] = b[j]
    /\ k > Len(a) \/ a[k] < b[k]

RECURSIVE Pow10(_)
Pow10(w) == IF w = 0 THEN 1 ELSE 10 * Pow10(w - 1)

\* ceil(log10(n)) for n >= 1: the least w with 10^w >= n
WidthFor(n) == CHOOSE w \in 0..9 : Pow10(w) >= n /\ \A v \in 0..(w - 1) : Pow10(v) < n

RECURSIVE DecValue(_)
DecValue(ds) ==
  IF ds = <<>> THEN 0 ELSE 10 * DecValue(SubSeq(ds, 1, Len(ds) - 1)) + ds[Len(ds)]

\* ds is the decimal notation of i, with zeros in front up to width w
ZeroPadded(ds, i, w) ==
  /\ Len(ds) >= 1 /\ Len(ds) >= w
  /\ \A k \in 1..Len(ds) : ds[k] \in 0..9
  /\ DecValue(ds) = i
  /\ Len(ds) > w => (Len(ds) = 1 \/ ds[1] # 0)

\* the name formed last is the one of its index, and comes after every name
\* formed before it
NameInOrder(k) ==
  /\ wd.log[k].i = k - 1
  /\ wd.log[k].name.ext = ext_dcm
  /\ ZeroPadded(wd.log[k].name.stem, k - 1, WidthFor(wd.num_slices))
  /\ \A j \in 1..(k - 1) : LexLess(NameText(wd.log[j].name), NameText(wd.log[k].name))

\* C13: for every slice count nz >= 1, write_dcm_dir names the file of
\* z-index i by i, zero-padded to width ceil(log10(nz)), and the DICOM
\* extension; the names are pairwise distinct and their lexicographic order
\* is the numeric order of the indices 0..nz-1.  (Every name is compared,
\* in the state in which it is formed, with all the names formed before.)
C13_SliceNames ==
  (pc = "wd_names" /\ wd.log # <<>>) => NameInOrder(Len(wd.log))

\* the 150 names of a volume of 150 planes: 000.dcm .. 149.dcm
C13_Witness ==
  /\ pc = "wd_names"
  /\ wd.num_slices = 150
  /\ Len(wd.log) = 150
  /\ wd.log[1].name = [stem |-> <<0, 0, 0>>, ext |-> ext_dcm]
  /\ wd.log[11].name = [stem |-> <<0, 1, 0>>, ext |-> ext_dcm]
  /\ wd.log[150].name = [stem |-> <<1, 4, 9>>, ext |-> ext_dcm]

\* s is an integer nearest to v * 255, for the voxel value v kept as d
NearestSample(s, d) ==
  /\ 2 * (s * VoxDen - 255 * d) <= VoxDen
  /\ 2 * (255 * d - s * VoxDen) <= VoxDen

\* C15: write_dcm stores each voxel value v as the 8-bit sample
\* round(v * 255): for every v in [0, 1] the sample is the integer nearest
\* to v * 255, not the truncation toward zero, and every stored sample is
\* within 0..255.
C15_RoundedSample ==
  (ret.op = "write_dcm" /\ wr.saved) =>
    \A z \in 1..Len(im.data) :
      /\ wr.file.pixels[z] \in 0..255
      /\ (im.data[z] >= 0 /\ im.data[z] <= VoxDen) =>
           NearestSample(wr.file.pixels[z], im.data[z])

\* the file of z-index i carries the geometry of the volume
CarriesGeometry(f, i) ==
  /\ f.ps.vals = <<im.ux, im.uy>>
  /\ f.thick.vals = <<im.uz>>
  /\ f.sliceLoc = im.uz * (f.instance - 1)
  /\ f.sliceLoc = im.uz * i

\* C16: every file written by write_dcm_dir for a volume of spacing
\* (ux, uy, uz) carries the pixel spacing (ux, uy), the slice thickness uz
\* and the slice location uz * (instance_number - 1), which is uz * i for
\* the slice of z-index i; the slice buffer handed to write_dcm has the
\* spacing of the volume, not the spacing it was initialized with.
C16_SliceGeometry ==
  \A k \in 1..Len(wd.log) :
    wd.log[k].ret = SUCCESS =>
      /\ wd.slice.ux = im.ux /\ wd.slice.uy = im.uy /\ wd.slice.uz = im.uz
      /\ CarriesGeometry(wd.log[k].file, wd.log[k].i)

====
